---- MODULE Spec2Model ----
(***************************************************************************)
(* Model of the nl library (src/nl): notifier<void(int)>, its connection   *)
(* handles, listeners and trackable target objects.                        *)
(*                                                                         *)
(* A notifier's std::list is a sequence of nodes; a node has an identity   *)
(* (what a list iterator points to) and holds a listener value.  The       *)
(* distinction matters: std::remove_if move-assigns listener VALUES from   *)
(* node to node while connection handles keep pointing at NODES.           *)
(*                                                                         *)
(* Undefined behaviour (erase of end(), erase through an iterator whose    *)
(* node was already freed, a call through a pointer to a destroyed         *)
(* notifier or object) is recorded in ub and its effect on the list is a   *)
(* nondeterministic choice (UBOutcomes).  Nothing is modelled after it.    *)
(***************************************************************************)
EXTENDS Integers, Sequences, FiniteSets, TLC

\* Total number of connect() calls explored.
MaxConnects == 3

\* The notifier objects a program may construct.
Notifiers == {"N1", "N2"}
\* The target objects a program may construct; all of a type deriving from
\* nl::trackable.
Objects == {"O1", "O2"}
\* The target objects of a type that does not derive from nl::trackable.
Plain == {"P"}
\* The programs explored: one notifier and two trackable target objects, two
\* notifiers and one trackable target object, or one notifier, a trackable
\* and a plain target object.
Programs == {[notifiers |-> {"N1"}, objects |-> {"O1", "O2"}],
             [notifiers |-> {"N1", "N2"}, objects |-> {"O1"}],
             [notifiers |-> {"N1"}, objects |-> {"O1", "P"}]}
\* m_object of a listener made from a free function.
NoObj == "nullobj"
\* m_notifier of a default or spent connection.
NullNotifier == "nullptr"
\* Broadcast arguments (TParams = int).
Args == {5, 7}
\* Value of ub while the program's behaviour is defined.  Otherwise ub is
\* "erase_end" (list erase of end()), "erase_stale" (list erase through an
\* iterator to a freed node), "dead_notifier" (call through a pointer to a
\* destroyed notifier), "dead_object" (call on a destroyed target object) or
\* "stale_iterator" (increment of an iterator to a freed node).
NoUB == "none"

VARIABLES
    n_alive,      \* notifier -> constructed and not yet destroyed
    o_alive,      \* object -> constructed and not yet destroyed
    m_listeners,  \* notifier -> sequence of list nodes [node, lstnr]
    m_callbacks,  \* object -> sequence of callback records (forward_list)
    conns,        \* connection handles, in the order connect() returned them
    issued,       \* history: per connect(), the notifier and listener passed
    disturbed,    \* history: notifiers some disconnect/destruction ran on
    ub,           \* NoUB, or the undefined behaviour the program ran into
    last          \* history: the last operation and the state before it

vars == <<n_alive, o_alive, m_listeners, m_callbacks, conns, issued, disturbed, ub, last>>

----------------------------------------------------------------------------
\* listener.hpp

\* detail::is_trackable<TObj>: the object's type derives from trackable.
is_trackable(o) == o \in Objects

\* listener::make<TFunc>(): a listener for a free function.
make_function(stub) ==
    [m_stub |-> stub, m_object |-> NoObj, m_trackable |-> FALSE]

\* Mutant of make_method: the listener is never marked trackable.
make_method_untracked(stub, o) ==
    [m_stub |-> stub, m_object |-> o, m_trackable |-> FALSE]

\* listener::make<TObj, TMethod>(obj): a listener for a method bound to obj.
make_method(stub, o) ==
    [m_stub |-> stub, m_object |-> o, m_trackable |-> is_trackable(o)]

\* The listener a caller builds for target o (NoObj: a free function).
make(stub, o) == IF o = NoObj THEN make_function(stub) ELSE make_method(stub, o)

----------------------------------------------------------------------------
\* trackable.hpp

\* trackable::track: m_callbacks.push_front({func, notifier, this}).
track(cbs, n, o) ==
    <<[function |-> "disconnect_trackable", notifier |-> n, object |-> o]>> \o cbs

\* Mutant of untrack: every callback is removed, whatever its notifier.
untrack_all(cbs, n) == <<>>

\* trackable::untrack: m_callbacks.remove_if(cllbck.notifier == notifier).
untrack(cbs, n) == SelectSeq(cbs, LAMBDA cb : cb.notifier /= n)

----------------------------------------------------------------------------
\* notifier.hpp: list primitives

\* Mutant of push_front: the node is linked at the back of the list.
push_back(ls, node, lstnr) == Append(ls, [node |-> node, lstnr |-> lstnr])

\* std::list::push_front of a freshly allocated node.
push_front(ls, node, lstnr) == <<[node |-> node, lstnr |-> lstnr]>> \o ls

\* std::list::erase(iterator) of the node at position i.
erase_at(ls, i) == SubSeq(ls, 1, i - 1) \o SubSeq(ls, i + 1, Len(ls))

\* Position of a node in the list, 0 when the node is not (any more) in it.
position(ls, node) ==
    IF \E i \in 1..Len(ls) : ls[i].node = node
    THEN CHOOSE i \in 1..Len(ls) : ls[i].node = node
    ELSE 0

\* The predicate of disconnect(obj): lstnr.get_object() == obj.
targets(lstnr, obj) == lstnr.m_object = obj

\* std::find_if: first position whose listener targets obj, else end().
find_if(ls, obj) ==
    IF \E i \in 1..Len(ls) : targets(ls[i].lstnr, obj)
    THEN CHOOSE i \in 1..Len(ls) :
            /\ targets(ls[i].lstnr, obj)
            /\ \A j \in 1..(i - 1) : ~targets(ls[j].lstnr, obj)
    ELSE Len(ls) + 1

\* The loop of std::remove_if: every later listener that is kept is
\* move-assigned into the node at result; the nodes themselves stay.
RECURSIVE remove_if_loop(_, _, _, _)
remove_if_loop(ls, result, first, obj) ==
    IF first > Len(ls) THEN [ls |-> ls, ret |-> result]
    ELSE IF ~targets(ls[first].lstnr, obj)
         THEN remove_if_loop([ls EXCEPT ![result].lstnr = ls[first].lstnr],
                             result + 1, first + 1, obj)
         ELSE remove_if_loop(ls, result, first + 1, obj)

\* std::remove_if(begin, end, pred): the list after the moves and the
\* returned position (Len + 1 is end()).
remove_if(ls, obj) ==
    LET f == find_if(ls, obj)
    IN  IF f > Len(ls) THEN [ls |-> ls, ret |-> f]
        ELSE remove_if_loop(ls, f, f + 1, obj)

\* notifier::disconnect(const TObj*): m_listeners.erase(remove_if(...)),
\* the single-iterator erase.  erase(end()) is undefined behaviour.
disconnect_obj(ls, obj) ==
    LET r == remove_if(ls, obj)
    IN  IF r.ret > Len(ls)
        THEN [ls |-> r.ls, ub |-> "erase_end"]
        ELSE [ls |-> erase_at(r.ls, r.ret), ub |-> NoUB]

\* What an undefined erase can leave behind: the list as it was, or the
\* list with some node unhooked.
UBOutcomes(ls) == {ls} \cup {erase_at(ls, i) : i \in 1..Len(ls)}

----------------------------------------------------------------------------
\* History record of an operation: what was called, with which inputs, and
\* the state it was called in.  imm: the call directly follows the connect
\* that returned the handle c; pre2 is then the notifier's list before that
\* connect.  spent: the handle's m_notifier was null at the call.
Record(op, n, o, c, arg, invoked, spent, imm) ==
    [op |-> op, n |-> n, o |-> o, c |-> c, arg |-> arg, invoked |-> invoked,
     spent |-> spent, imm |-> imm,
     pre |-> m_listeners,
     pre2 |-> IF imm THEN last.pre[n] ELSE <<>>,
     preCb |-> m_callbacks, preAlive |-> n_alive, preDisturbed |-> disturbed]

\* The state after the program has constructed its notifiers (notifier() =
\* default: an empty list) and target objects (trackable() = default: no
\* callbacks); no connection has been made yet.
Init ==
    /\ \E p \in Programs :
          /\ n_alive = [n \in Notifiers |-> n \in p.notifiers]
          /\ o_alive = [o \in Objects \cup Plain |-> o \in p.objects]
    /\ m_listeners = [n \in Notifiers |-> <<>>]
    /\ m_callbacks = [o \in Objects |-> <<>>]
    /\ conns = <<>>
    /\ issued = <<>>
    /\ disturbed = {}
    /\ ub = NoUB
    /\ last = [op |-> "init", n |-> NullNotifier, o |-> NoObj, c |-> 0, arg |-> 0,
               invoked |-> <<>>, spent |-> FALSE, imm |-> FALSE,
               pre |-> [n \in Notifiers |-> <<>>], pre2 |-> <<>>,
               preCb |-> [o \in Objects |-> <<>>],
               preAlive |-> n_alive, preDisturbed |-> {}]

\* notifier::connect(lstnr): track the target when trackable, push_front,
\* return connection(this, begin()).
connect(n, o) ==
    LET c == Len(conns) + 1
        lstnr == make(c, o)
    IN  /\ ub = NoUB
        /\ n_alive[n]
        /\ c <= MaxConnects
        /\ o /= NoObj => o_alive[o]
        /\ m_callbacks' = IF lstnr.m_trackable
                          THEN [m_callbacks EXCEPT ![o] = track(@, n, o)]
                          ELSE m_callbacks
        /\ m_listeners' = [m_listeners EXCEPT ![n] = push_front(@, c, lstnr)]
        /\ conns' = Append(conns, [m_notifier |-> n, m_listener |-> c])
        /\ issued' = Append(issued, [notifier |-> n, lstnr |-> lstnr])
        /\ last' = Record("connect", n, o, c, 0, <<>>, FALSE, FALSE)
        /\ UNCHANGED <<n_alive, o_alive, disturbed, ub>>

\* Mutant of disconnect_iter: the last node of the list is erased instead of
\* the node the iterator points to.
disconnect_iter_back(ls, node) ==
    IF position(ls, node) = 0
    THEN [ls |-> ls, ub |-> "erase_stale"]
    ELSE [ls |-> erase_at(ls, Len(ls)), ub |-> NoUB]

\* notifier::disconnect(iterator): m_listeners.erase(lstnr_iter).  Erasing
\* through an iterator whose node is no longer in the list is undefined.
disconnect_iter(ls, node) ==
    LET i == position(ls, node)
    IN  IF i = 0
        THEN [ls |-> ls, ub |-> "erase_stale"]
        ELSE [ls |-> erase_at(ls, i), ub |-> NoUB]

\* Mutant of spend: the handle keeps its notifier pointer.
spend_not(cs, c) == cs

\* connection::disconnect(), line 54: m_notifier = nullptr.
spend(cs, c) == [cs EXCEPT ![c].m_notifier = NullNotifier]

\* connection::disconnect(): if(m_notifier){ m_notifier->disconnect(m_listener);
\* m_notifier = nullptr; }
connection_disconnect(c) ==
    LET n == conns[c].m_notifier
        imm == last.op = "connect" /\ last.c = c
    IN  /\ ub = NoUB
        /\ last' = Record("connection_disconnect", n, NoObj, c, 0, <<>>,
                          n = NullNotifier, imm)
        /\ IF n = NullNotifier
           THEN UNCHANGED <<m_listeners, conns, disturbed, ub>>
           ELSE IF ~n_alive[n]
           THEN /\ ub' = "dead_notifier"
                /\ UNCHANGED <<m_listeners, conns, disturbed>>
           ELSE LET d == disconnect_iter(m_listeners[n], conns[c].m_listener)
                IN  /\ ub' = d.ub
                    /\ disturbed' = disturbed \cup {n}
                    /\ IF d.ub = NoUB
                       THEN /\ m_listeners' = [m_listeners EXCEPT ![n] = d.ls]
                            /\ conns' = spend(conns, c)
                       ELSE /\ \E out \in UBOutcomes(d.ls) :
                                 m_listeners' = [m_listeners EXCEPT ![n] = out]
                            /\ UNCHANGED conns
        /\ UNCHANGED <<n_alive, o_alive, m_callbacks, issued>>

\* notifier::disconnect(obj), called by the user of the notifier with a
\* pointer to a live object.
disconnect(n, o) ==
    LET d == disconnect_obj(m_listeners[n], o)
    IN  /\ ub = NoUB
        /\ n_alive[n]
        /\ o_alive[o]
        /\ last' = Record("disconnect", n, o, 0, 0, <<>>, FALSE, FALSE)
        /\ ub' = d.ub
        /\ disturbed' = disturbed \cup {n}
        /\ IF d.ub = NoUB
           THEN m_listeners' = [m_listeners EXCEPT ![n] = d.ls]
           ELSE \E out \in UBOutcomes(d.ls) :
                   m_listeners' = [m_listeners EXCEPT ![n] = out]
        /\ UNCHANGED <<n_alive, o_alive, m_callbacks, conns, issued>>

\* Mutant of clear: the first node survives.
clear_but_first(ls) == IF ls = <<>> THEN <<>> ELSE <<ls[1]>>

\* std::list::clear().
clear(ls) == <<>>

\* notifier::disconnect_all(): m_listeners.clear().
disconnect_all(n) ==
    /\ ub = NoUB
    /\ n_alive[n]
    /\ last' = Record("disconnect_all", n, NoObj, 0, 0, <<>>, FALSE, FALSE)
    /\ m_listeners' = [m_listeners EXCEPT ![n] = clear(@)]
    /\ disturbed' = disturbed \cup {n}
    /\ UNCHANGED <<n_alive, o_alive, m_callbacks, conns, issued, ub>>

\* The listener is bound to an object that has been destroyed.
dangling(lstnr) == lstnr.m_object /= NoObj /\ ~o_alive[lstnr.m_object]

\* The invocations of notifier::operator()(arg): every listener of the list
\* in list order, up to the first one bound to a destroyed object.
invocations(ls, arg) ==
    LET bad == {i \in 1..Len(ls) : dangling(ls[i].lstnr)}
        k == IF bad = {} THEN Len(ls)
             ELSE (CHOOSE i \in bad : \A j \in bad : i <= j) - 1
    IN  [i \in 1..k |-> [lstnr |-> ls[i].lstnr, arg |-> arg]]

\* notifier::notify(arg) / operator()(arg).
notify(n, arg) ==
    /\ ub = NoUB
    /\ n_alive[n]
    /\ last' = Record("notify", n, NoObj, 0, arg,
                      invocations(m_listeners[n], arg), FALSE, FALSE)
    /\ ub' = IF \E i \in 1..Len(m_listeners[n]) : dangling(m_listeners[n][i].lstnr)
             THEN "dead_object" ELSE NoUB
    /\ UNCHANGED <<n_alive, o_alive, m_listeners, m_callbacks, conns, issued, disturbed>>

\* notifier::~notifier(): untrack(this) on the target of every remaining
\* trackable listener, then the list is destroyed.
notifier_dtor(n) ==
    LET ls == m_listeners[n]
        tracked == {ls[i].lstnr.m_object : i \in {j \in 1..Len(ls) : ls[j].lstnr.m_trackable}}
    IN  /\ ub = NoUB
        /\ n_alive[n]
        /\ last' = Record("notifier_dtor", n, NoObj, 0, 0, <<>>, FALSE, FALSE)
        /\ n_alive' = [n_alive EXCEPT ![n] = FALSE]
        /\ disturbed' = disturbed \cup {n}
        /\ IF \E o \in tracked : ~o_alive[o]
           THEN /\ ub' = "dead_object"
                /\ UNCHANGED <<m_listeners, m_callbacks>>
           ELSE /\ ub' = NoUB
                /\ m_callbacks' = [o \in Objects |->
                                     IF o \in tracked THEN untrack(m_callbacks[o], n)
                                     ELSE m_callbacks[o]]
                /\ m_listeners' = [m_listeners EXCEPT ![n] = <<>>]
        /\ UNCHANGED <<o_alive, conns, issued>>

\* The loop of trackable::~trackable() from callback i on: each callback calls
\* disconnect_trackable(notifier, object), that is notifier->disconnect(object).
\* It stops at the first undefined call: through a pointer to a destroyed
\* notifier, or an erase(end()).
RECURSIVE run_callbacks(_, _, _)
run_callbacks(cbs, i, L) ==
    IF i > Len(cbs) THEN [L |-> L, ub |-> NoUB, at |-> NullNotifier]
    ELSE LET n == cbs[i].notifier
         IN  IF ~n_alive[n] THEN [L |-> L, ub |-> "dead_notifier", at |-> n]
             ELSE LET d == disconnect_obj(L[n], cbs[i].object)
                  IN  IF d.ub /= NoUB
                      THEN [L |-> [L EXCEPT ![n] = d.ls], ub |-> d.ub, at |-> n]
                      ELSE run_callbacks(cbs, i + 1, [L EXCEPT ![n] = d.ls])

\* trackable::~trackable(): run every callback, then the callbacks are
\* destroyed with the object.
trackable_dtor(o) ==
    LET r == run_callbacks(m_callbacks[o], 1, m_listeners)
    IN  /\ ub = NoUB
        /\ o_alive[o]
        /\ last' = Record("trackable_dtor", NullNotifier, o, 0, 0, <<>>, FALSE, FALSE)
        /\ o_alive' = [o_alive EXCEPT ![o] = FALSE]
        /\ disturbed' = disturbed \cup
                {m_callbacks[o][i].notifier : i \in 1..Len(m_callbacks[o])}
        /\ ub' = r.ub
        /\ IF r.ub = NoUB
           THEN /\ m_listeners' = r.L
                /\ m_callbacks' = [m_callbacks EXCEPT ![o] = <<>>]
           ELSE IF r.ub = "erase_end"
           THEN /\ \E out \in UBOutcomes(r.L[r.at]) :
                     m_listeners' = [r.L EXCEPT ![r.at] = out]
                /\ UNCHANGED m_callbacks
           ELSE /\ m_listeners' = r.L
                /\ UNCHANGED m_callbacks
        /\ UNCHANGED <<n_alive, conns, issued>>

\* The destructor of a target object whose type does not derive from
\* trackable: nothing of the library runs.  The listeners bound to the object
\* stay in their notifiers, which the history counts as disturbed.
object_dtor(o) ==
    /\ ub = NoUB
    /\ o_alive[o]
    /\ last' = Record("object_dtor", NullNotifier, o, 0, 0, <<>>, FALSE, FALSE)
    /\ o_alive' = [o_alive EXCEPT ![o] = FALSE]
    /\ disturbed' = disturbed \cup
            {n \in Notifiers :
                \E i \in 1..Len(m_listeners[n]) : m_listeners[n][i].lstnr.m_object = o}
    /\ UNCHANGED <<n_alive, m_listeners, m_callbacks, conns, issued, ub>>

----------------------------------------------------------------------------
\* notifier.hpp: broadcasts whose listeners throw or disconnect

\* Mutant of invoke_loop: the exception of listener k is swallowed and the
\* loop goes on.
RECURSIVE invoke_loop_catch(_, _, _, _, _)
invoke_loop_catch(ls, i, arg, k, acc) ==
    IF i > Len(ls) THEN [invoked |-> acc, thrown |-> FALSE, ub |-> NoUB]
    ELSE IF dangling(ls[i].lstnr)
    THEN [invoked |-> acc, thrown |-> FALSE, ub |-> "dead_object"]
    ELSE invoke_loop_catch(ls, i + 1, arg, k,
                           Append(acc, [lstnr |-> ls[i].lstnr, arg |-> arg]))

\* The loop of notifier::operator()(arg) from position i on, when the
\* listener at position k throws: the loop has no handler, so the exception
\* leaves it (and operator()) right after that listener was invoked.
RECURSIVE invoke_loop(_, _, _, _, _)
invoke_loop(ls, i, arg, k, acc) ==
    IF i > Len(ls) THEN [invoked |-> acc, thrown |-> FALSE, ub |-> NoUB]
    ELSE IF dangling(ls[i].lstnr)
    THEN [invoked |-> acc, thrown |-> FALSE, ub |-> "dead_object"]
    ELSE LET acc2 == Append(acc, [lstnr |-> ls[i].lstnr, arg |-> arg])
         IN  IF i = k
             THEN [invoked |-> acc2, thrown |-> TRUE, ub |-> NoUB]
             ELSE invoke_loop(ls, i + 1, arg, k, acc2)

\* notifier::operator()(arg) with the listener at position k throwing.
notify_throw(n, arg, k) ==
    LET r == invoke_loop(m_listeners[n], 1, arg, k, <<>>)
    IN  /\ ub = NoUB
        /\ n_alive[n]
        /\ k \in 1..Len(m_listeners[n])
        /\ last' = Record("notify_throw", n, NoObj, k, arg, r.invoked, FALSE, FALSE)
                       @@ [thrown |-> r.thrown]
        /\ ub' = r.ub
        /\ UNCHANGED <<n_alive, o_alive, m_listeners, m_callbacks, conns, issued,
                       disturbed>>

\* Mutant of advance: the iterator is incremented twice.
advance_twice(ls, node) ==
    LET i == position(ls, node)
    IN  IF i = 0 THEN -1
        ELSE IF i + 2 > Len(ls) THEN 0
        ELSE ls[i + 2].node

\* The ++ of the range-for of operator(): the node after the current one in
\* the list as it is now, 0 for end(), -1 when the current node is no longer
\* in the list (the iterator points to freed memory).
advance(ls, node) ==
    LET i == position(ls, node)
    IN  IF i = 0 THEN -1
        ELSE IF i = Len(ls) THEN 0
        ELSE ls[i + 1].node

\* connection::disconnect() on handle c, called by a listener while its
\* notifier's operator() iterates over ls.
reentrant_disconnect(ls, cs, c) ==
    IF cs[c].m_notifier = NullNotifier
    THEN [ls |-> ls, cs |-> cs, ub |-> NoUB]
    ELSE LET d == disconnect_iter(ls, cs[c].m_listener)
         IN  IF d.ub /= NoUB
             THEN [ls |-> d.ls, cs |-> cs, ub |-> d.ub]
             ELSE [ls |-> d.ls, cs |-> spend(cs, c), ub |-> NoUB]

\* The loop of notifier::operator()(arg) with the iterator at node (0:
\* end()), when the listener in node knode calls disconnect() on handle c.
RECURSIVE reentrant_loop(_, _, _, _, _, _, _)
reentrant_loop(ls, cs, node, arg, knode, c, acc) ==
    IF node = 0 THEN [ls |-> ls, cs |-> cs, invoked |-> acc, ub |-> NoUB]
    ELSE LET l == ls[position(ls, node)].lstnr
         IN  IF dangling(l)
             THEN [ls |-> ls, cs |-> cs, invoked |-> acc, ub |-> "dead_object"]
             ELSE LET acc2 == Append(acc, [lstnr |-> l, arg |-> arg])
                      h == IF node = knode THEN reentrant_disconnect(ls, cs, c)
                           ELSE [ls |-> ls, cs |-> cs, ub |-> NoUB]
                      next == advance(h.ls, node)
                  IN  IF h.ub /= NoUB
                      THEN [ls |-> h.ls, cs |-> h.cs, invoked |-> acc2, ub |-> h.ub]
                      ELSE IF next = -1
                      THEN [ls |-> h.ls, cs |-> h.cs, invoked |-> acc2,
                            ub |-> "stale_iterator"]
                      ELSE reentrant_loop(h.ls, h.cs, next, arg, knode, c, acc2)

\* notifier::operator()(arg) on notifier n when the listener at position k
\* calls disconnect() on handle c, a handle of this notifier.
notify_reentrant(n, arg, k, c) ==
    LET ls == m_listeners[n]
        r == reentrant_loop(ls, conns, ls[1].node, arg, ls[k].node, c, <<>>)
    IN  /\ ub = NoUB
        /\ n_alive[n]
        /\ k \in 1..Len(ls)
        /\ conns[c].m_notifier \in {n, NullNotifier}
        /\ last' = Record("notify_reentrant", n, NoObj, c, arg, r.invoked,
                          conns[c].m_notifier = NullNotifier, FALSE)
                       @@ [at |-> k]
        /\ ub' = r.ub
        /\ conns' = r.cs
        /\ disturbed' = disturbed \cup {n}
        /\ IF r.ub = "erase_stale"
           THEN \E out \in UBOutcomes(r.ls) :
                   m_listeners' = [m_listeners EXCEPT ![n] = out]
           ELSE m_listeners' = [m_listeners EXCEPT ![n] = r.ls]
        /\ UNCHANGED <<n_alive, o_alive, m_callbacks, issued>>

----------------------------------------------------------------------------
\* notifier.hpp: moving a connection

\* The defaulted member-wise move of a connection: m_notifier is a raw pointer
\* and m_listener an iterator, and moving either copies it, so the target
\* gets the source's two members and the source keeps its own.
move(cs, dst, src) == [cs EXCEPT ![dst] = cs[src]]

\* connection::operator=(connection&&) = default, handle dst = std::move(handle
\* src); connection(connection&&) = default moves the same two members into a
\* new object.
connection_move(dst, src) ==
    /\ ub = NoUB
    /\ dst /= src
    /\ last' = Record("connection_move", conns[src].m_notifier, NoObj, dst, 0, <<>>,
                      conns[src].m_notifier = NullNotifier, FALSE)
                   @@ [src |-> src]
    /\ conns' = move(conns, dst, src)
    /\ UNCHANGED <<n_alive, o_alive, m_listeners, m_callbacks, issued, disturbed, ub>>

----------------------------------------------------------------------------
\* notifier.hpp, trackable.hpp: the defaulted copy and move operations

\* std::list's copy: the same listeners in the same order, in nodes of the
\* new list.  Node identities above MaxConnects are those no connect() gives
\* out, so no connection handle refers to a copied node.
copy_list(ls) == [i \in 1..Len(ls) |-> [node |-> MaxConnects + i, lstnr |-> ls[i].lstnr]]

\* notifier(const notifier&) = default when dst is a new notifier, and
\* operator=(const notifier&) = default when dst is a live one: m_listeners
\* is copied, and nothing else is done; no target object is told.  The
\* targets taken are notifiers that are new or have only been connected to.
notifier_copy(src, dst) ==
    /\ ub = NoUB
    /\ src /= dst
    /\ n_alive[src]
    /\ dst \notin disturbed
    /\ last' = Record("notifier_copy", dst, NoObj, 0, 0, <<>>, FALSE, FALSE)
                   @@ [src |-> src]
    /\ n_alive' = [n_alive EXCEPT ![dst] = TRUE]
    /\ m_listeners' = [m_listeners EXCEPT ![dst] = copy_list(m_listeners[src])]
    /\ disturbed' = disturbed \cup {dst}
    /\ UNCHANGED <<o_alive, m_callbacks, conns, issued, ub>>

\* notifier(notifier&&) = default when dst is a new notifier, and
\* operator=(notifier&&) = default when dst is a live one: std::list's move
\* hands the nodes of src to dst and leaves src empty; nothing else is done.
\* The targets taken are as for notifier_copy.
notifier_move(src, dst) ==
    /\ ub = NoUB
    /\ src /= dst
    /\ n_alive[src]
    /\ dst \notin disturbed
    /\ last' = Record("notifier_move", dst, NoObj, 0, 0, <<>>, FALSE, FALSE)
                   @@ [src |-> src]
    /\ n_alive' = [n_alive EXCEPT ![dst] = TRUE]
    /\ m_listeners' = [m_listeners EXCEPT ![dst] = m_listeners[src], ![src] = <<>>]
    /\ disturbed' = disturbed \cup {src, dst}
    /\ UNCHANGED <<o_alive, m_callbacks, conns, issued, ub>>

\* trackable(const trackable&) = default when dst is a new object, and
\* operator=(const trackable&) = default when dst is a live one: m_callbacks
\* is copied as it is, each callback with the notifier and the object
\* pointer it was made with.  The targets taken are objects that no listener
\* was ever bound to.
trackable_copy(src, dst) ==
    /\ ub = NoUB
    /\ src /= dst
    /\ o_alive[src]
    /\ \A i \in 1..Len(issued) : issued[i].lstnr.m_object /= dst
    /\ last' = Record("trackable_copy", NullNotifier, dst, 0, 0, <<>>, FALSE, FALSE)
                   @@ [src |-> src]
    /\ o_alive' = [o_alive EXCEPT ![dst] = TRUE]
    /\ m_callbacks' = [m_callbacks EXCEPT ![dst] = m_callbacks[src]]
    /\ UNCHANGED <<n_alive, m_listeners, conns, issued, disturbed, ub>>

----------------------------------------------------------------------------
\* Vocabulary of the properties.

\* The listener values of a list, in list order.
vals(ls) == [i \in 1..Len(ls) |-> ls[i].lstnr]

\* A sequence without the elements equal to v / without the listeners
\* bound to object o.
without(vs, v) == SelectSeq(vs, LAMBDA x : x /= v)
not_bound_to(vs, o) == SelectSeq(vs, LAMBDA x : x.m_object /= o)
bound_to(vs, o) == SelectSeq(vs, LAMBDA x : x.m_object = o)

\* v occurs in the sequence vs.
occurs(vs, v) == \E i \in 1..Len(vs) : vs[i] = v

Reverse(sq) == [i \in 1..Len(sq) |-> sq[Len(sq) + 1 - i]]

\* The listeners passed to connect() on notifier n, in connection order.
connected_to(n) ==
    LET es == SelectSeq(issued, LAMBDA e : e.notifier = n)
    IN  [i \in 1..Len(es) |-> es[i].lstnr]

\* The callbacks (registrations) of a sequence that name notifier n.
naming(cbs, n) == SelectSeq(cbs, LAMBDA cb : cb.notifier = n)

\* The callbacks of a sequence that name another notifier than n.
not_naming(cbs, n) == SelectSeq(cbs, LAMBDA cb : cb.notifier /= n)

\* The notifiers named by the callbacks of a sequence.
notifiers_of(cbs) == {cbs[i].notifier : i \in 1..Len(cbs)}

----------------------------------------------------------------------------
\* C1: once a trackable object O has been destroyed, no live notifier that
\* O held registrations for contains a listener bound to O, and the
\* destruction ran into no undefined behaviour, whatever connects and
\* disconnects came before and however many listeners were bound to O.
C1_NoListenerOfDestroyedObject ==
    (/\ last.op = "trackable_dtor"
     /\ \A n \in notifiers_of(last.preCb[last.o]) : n_alive[n])
    => /\ ub = NoUB
       /\ \A n \in Notifiers : bound_to(vals(m_listeners[n]), last.o) = <<>>

\* C2: a broadcast on a notifier that has only seen connects invokes each
\* connected listener exactly once, with the broadcast's argument, the most
\* recently connected first.
C2_BroadcastReverseConnectionOrder ==
    (last.op = "notify" /\ last.n \notin last.preDisturbed)
    => /\ ub = NoUB
       /\ last.invoked =
            [i \in 1..Len(connected_to(last.n)) |->
                [lstnr |-> Reverse(connected_to(last.n))[i], arg |-> last.arg]]

C2_Witness ==
    /\ last.op = "notify"
    /\ last.n \notin last.preDisturbed
    /\ ub = NoUB
    /\ Len(last.invoked) = 3
    /\ last.invoked[1].lstnr.m_stub = 3
    /\ last.invoked[3].lstnr.m_stub = 1

\* C3: connection::disconnect() on an unspent handle whose listener is still
\* in the (live) notifier removes exactly that listener and leaves the others
\* as they were, in the same order, whatever ran on the notifier in between.
C3_ConnectionRemovesExactlyItsListener ==
    (/\ last.op = "connection_disconnect"
     /\ ~last.spent
     /\ last.preAlive[last.n]
     /\ occurs(vals(last.pre[last.n]), issued[last.c].lstnr))
    => /\ ub = NoUB
       /\ vals(m_listeners[last.n]) =
            without(vals(last.pre[last.n]), issued[last.c].lstnr)
       /\ \A n \in Notifiers \ {last.n} : m_listeners[n] = last.pre[n]

\* C4: disconnect(object) removes every listener bound to the object and
\* leaves every other listener in place, once, in its previous order.  (The
\* calls that end in undefined behaviour are left out of this statement.)
C4_DisconnectObjectRemovesAll ==
    (last.op = "disconnect" /\ ub = NoUB)
    => vals(m_listeners[last.n]) = not_bound_to(vals(last.pre[last.n]), last.o)

\* C5: connection::disconnect() on an unspent handle whose listener was
\* already removed from the still-alive notifier by another route is a
\* no-op: the notifier's list is unchanged and no removed node is accessed.
C5_DisconnectAfterRemovalIsNoOp ==
    (/\ last.op = "connection_disconnect"
     /\ ~last.spent
     /\ last.preAlive[last.n]
     /\ ~occurs(vals(last.pre[last.n]), issued[last.c].lstnr))
    => /\ ub = NoUB
       /\ m_listeners = last.pre

\* C6: connection::disconnect() leaves the handle spent (m_notifier null),
\* and a call on a spent handle changes no notifier's list and touches no
\* node.
C6_DisconnectIdempotent ==
    last.op = "connection_disconnect"
    => /\ ub = NoUB => conns[last.c].m_notifier = NullNotifier
       /\ last.spent => (ub = NoUB /\ m_listeners = last.pre)

\* A second disconnect() on a handle, with a listener connected after the
\* handle was issued still in the notifier the handle belonged to.
C6_Witness ==
    /\ last.op = "connection_disconnect"
    /\ last.spent
    /\ \E i \in 1..Len(m_listeners[issued[last.c].notifier]) :
          m_listeners[issued[last.c].notifier][i].node > last.c

\* C7: after a notifier is destroyed no live trackable object holds a
\* registration naming it, so no later destruction of a trackable object
\* calls into it.
C7_NoRegistrationForDestroyedNotifier ==
    /\ \A n \in Notifiers, o \in Objects :
          (~n_alive[n] /\ o_alive[o]) => naming(m_callbacks[o], n) = <<>>
    /\ ub /= "dead_notifier" \/ last.op /= "trackable_dtor"

\* C8: destroying a trackable object O that has k >= 1 listeners in notifier
\* N, before any disconnect, removes exactly those k listeners from N and
\* leaves the others once each in their previous order.
C8_DestructionRemovesExactlyItsListeners ==
    \A n \in Notifiers :
      (/\ last.op = "trackable_dtor"
       /\ last.preAlive[n]
       /\ n \notin last.preDisturbed
       /\ Len(bound_to(vals(last.pre[n]), last.o)) >= 1)
      => /\ ub = NoUB
         /\ Len(m_listeners[n]) =
              Len(last.pre[n]) - Len(bound_to(vals(last.pre[n]), last.o))
         /\ vals(m_listeners[n]) = not_bound_to(vals(last.pre[n]), last.o)

\* O has a listener in the notifier being destroyed and in another one.
C9_Case(o, n2) ==
    /\ last.op = "notifier_dtor"
    /\ n2 /= last.n
    /\ last.preAlive[n2]
    /\ o_alive[o]
    /\ bound_to(vals(last.pre[last.n]), o) /= <<>>
    /\ bound_to(vals(last.pre[n2]), o) /= <<>>

C10_ConnectDisconnectRoundTrip ==
    (last.op = "connection_disconnect" /\ last.imm)
    => /\ ub = NoUB
       /\ m_listeners[last.n] = last.pre2
       /\ \A n \in Notifiers \ {last.n} : m_listeners[n] = last.pre[n]

C10_Witness ==
    /\ last.op = "connection_disconnect"
    /\ last.imm
    /\ Len(last.pre2) >= 2

\* The listener that a (defined) connection::disconnect() erased: the one in
\* the node the handle points to, in the list before the call.
C12_Erased ==
    last.pre[last.n][position(last.pre[last.n], conns[last.c].m_listener)].lstnr

\* A defined connection::disconnect() that erased a listener bound to a live
\* trackable object.
C12_Case ==
    /\ last.op = "connection_disconnect"
    /\ ~last.spent
    /\ ub = NoUB
    /\ C12_Erased.m_trackable
    /\ o_alive[C12_Erased.m_object]

\* C12: when connection::disconnect() removes the last listener of notifier N
\* bound to trackable object O, O afterwards holds no registration naming N;
\* when other listeners bound to O remain in N, O keeps a registration for N.
C12_LastDisconnectUntracks ==
    C12_Case
    => IF bound_to(vals(m_listeners[last.n]), C12_Erased.m_object) = <<>>
       THEN naming(m_callbacks[C12_Erased.m_object], last.n) = <<>>
       ELSE naming(m_callbacks[C12_Erased.m_object], last.n) /= <<>>

\* C13: a trackable object's registrations hold at most one entry per
\* notifier.
C13_OneRegistrationPerNotifier ==
    \A o \in Objects, n \in Notifiers : Len(naming(m_callbacks[o], n)) <= 1

\* O is destroyed while it holds two or more registrations for one notifier,
\* all its registrations naming live notifiers.
C14_Case ==
    /\ last.op = "trackable_dtor"
    /\ \A n \in notifiers_of(last.preCb[last.o]) : last.preAlive[n]
    /\ \E n \in Notifiers : Len(naming(last.preCb[last.o], n)) >= 2

\* C14: duplicate registrations are harmless: destroying O with two or more
\* registrations for a notifier removes all listeners bound to O, leaves the
\* others untouched, and the repeated callbacks are no-ops.
C14_DuplicateRegistrationsHarmless ==
    C14_Case
    => /\ ub = NoUB
       /\ \A n \in Notifiers :
             vals(m_listeners[n]) = not_bound_to(vals(last.pre[n]), last.o)

\* C15: disconnect_all empties the notifier's list, so that a broadcast on it
\* invokes nothing, and changes no other list and no registration of any
\* trackable object.
C15_DisconnectAllFrame ==
    /\ last.op = "disconnect_all"
       => /\ ub = NoUB
          /\ m_listeners[last.n] = <<>>
          /\ \A n \in Notifiers \ {last.n} : m_listeners[n] = last.pre[n]
          /\ m_callbacks = last.preCb
    /\ (last.op = "notify" /\ last.pre[last.n] = <<>>) => last.invoked = <<>>

\* disconnect_all on a notifier that held a listener bound to a trackable
\* object, which still holds its registration for the notifier.
C15_Witness ==
    /\ last.op = "disconnect_all"
    /\ \E o \in Objects :
          /\ bound_to(vals(last.pre[last.n]), o) /= <<>>
          /\ naming(m_callbacks[o], last.n) /= <<>>

\* The fields of a listener agree: no target object means not trackable, and
\* a target object means trackable exactly when its type derives from
\* trackable.
C20_Consistent(l) ==
    /\ l.m_object = NoObj => ~l.m_trackable
    /\ l.m_object /= NoObj => (l.m_trackable <=> l.m_object \in Objects)

\* C20: every listener built is consistent and reports the object it was
\* built for, and every listener held by a notifier is, field for field, one
\* of the listeners built: the fields never change after construction.
C20_ListenerInvariant ==
    /\ \A c \in 1..Len(issued) : C20_Consistent(issued[c].lstnr)
    /\ last.op = "connect"
       => /\ issued[last.c].lstnr.m_object = last.o
          /\ m_listeners[last.n][1].lstnr = issued[last.c].lstnr
    /\ \A n \in Notifiers : \A i \in 1..Len(m_listeners[n]) :
          /\ C20_Consistent(m_listeners[n][i].lstnr)
          /\ \E c \in 1..Len(issued) : issued[c].lstnr = m_listeners[n][i].lstnr

\* A notifier holds a listener bound to a plain object, one bound to a
\* trackable object and one that std::remove_if moved to another node.
C20_Witness ==
    \E n \in Notifiers : \E i, j, k \in 1..Len(m_listeners[n]) :
        /\ m_listeners[n][i].lstnr.m_object \in Plain
        /\ m_listeners[n][j].lstnr.m_object \in Objects
        /\ m_listeners[n][k].node /= m_listeners[n][k].lstnr.m_stub

\* C11: when the listener at position k throws during a broadcast, the
\* exception reaches the caller, the listeners up to position k have been
\* invoked once each, in order, none after position k has, and no list
\* changed.
C11_ThrowStopsBroadcast ==
    (last.op = "notify_throw" /\ ub = NoUB)
    => /\ last.thrown
       /\ last.invoked =
            [i \in 1..last.c |-> [lstnr |-> last.pre[last.n][i].lstnr, arg |-> last.arg]]
       /\ m_listeners = last.pre

\* The second of three listeners throws.
C11_Witness ==
    /\ last.op = "notify_throw"
    /\ ub = NoUB
    /\ last.c = 2
    /\ Len(last.pre[last.n]) = 3

\* During a broadcast over listeners whose target objects are all alive, the
\* listener at position last.at disconnects, through an unspent handle, a
\* listener at an earlier position.
C16_Case ==
    /\ last.op = "notify_reentrant"
    /\ ~last.spent
    /\ \A i \in 1..Len(last.pre[last.n]) : ~dangling(last.pre[last.n][i].lstnr)
    /\ position(last.pre[last.n], conns[last.c].m_listener) \in 1..(last.at - 1)

\* C16: when a listener invoked during a broadcast disconnects a listener
\* that was invoked earlier in the same broadcast, the iteration goes on
\* without touching the removed node: every listener of the list, those after
\* the current one included, is invoked exactly once, in order, and the list
\* ends without the removed node.
C16_ReentrantRemovalOfEarlier ==
    C16_Case
    => /\ ub = NoUB
       /\ last.invoked =
            [i \in 1..Len(last.pre[last.n]) |->
                [lstnr |-> last.pre[last.n][i].lstnr, arg |-> last.arg]]
       /\ m_listeners[last.n] =
            erase_at(last.pre[last.n],
                     position(last.pre[last.n], conns[last.c].m_listener))

\* The second of three listeners disconnects the first.
C16_Witness ==
    /\ C16_Case
    /\ last.at = 2
    /\ Len(last.pre[last.n]) = 3

\* C17: after a connection is moved into another handle the moved-from handle
\* is spent, and no two unspent handles refer to the same node of the same
\* notifier, so the node is erased at most once across the handles.
C17_MovedFromIsSpent ==
    /\ last.op = "connection_move" => conns[last.src].m_notifier = NullNotifier
    /\ \A c1, c2 \in 1..Len(conns) :
          (/\ c1 /= c2
           /\ conns[c1].m_notifier /= NullNotifier
           /\ conns[c1].m_notifier = conns[c2].m_notifier)
          => conns[c1].m_listener /= conns[c2].m_listener

\* C18: as long as nothing undefined has happened, every trackable listener
\* in the list of a live notifier N, a notifier made by copy or move
\* included, targets an object that is alive and holds at least one
\* registration naming N.
C18_TrackingInvariant ==
    ub = NoUB
    => \A n \in Notifiers :
          n_alive[n]
          => \A i \in 1..Len(m_listeners[n]) :
                LET l == m_listeners[n][i].lstnr
                IN  l.m_trackable
                    => /\ o_alive[l.m_object]
                       /\ naming(m_callbacks[l.m_object], n) /= <<>>

\* C19: destroying a trackable object that was itself never connected to any
\* notifier, a copy of a connected object included, changes no notifier's
\* listener sequence and runs into nothing undefined.
C19_DestroyingCopyChangesNothing ==
    (/\ last.op = "trackable_dtor"
     /\ \A i \in 1..Len(issued) : issued[i].lstnr.m_object /= last.o)
    => /\ ub = NoUB
       /\ m_listeners = last.pre

----------------------------------------------------------------------------
Next ==
    \/ \E n \in Notifiers, o \in Objects \cup Plain \cup {NoObj} : connect(n, o)
    \/ \E c \in 1..Len(conns) : connection_disconnect(c)
    \/ \E n \in Notifiers, o \in Objects \cup Plain : disconnect(n, o)
    \/ \E n \in Notifiers : disconnect_all(n)
    \/ \E n \in Notifiers, arg \in Args : notify(n, arg)
    \/ \E n \in Notifiers : notifier_dtor(n)
    \/ \E o \in Objects : trackable_dtor(o)
    \/ \E o \in Plain : object_dtor(o)

Spec == Init /\ [][Next]_vars

\* The library when connection handles are moved.
NextMove ==
    \/ Next
    \/ \E dst \in 1..Len(conns), src \in 1..Len(conns) : connection_move(dst, src)


\* The library when notifiers and trackable objects are copied and moved.
NextCopy ==
    \/ \E n \in Notifiers, o \in Objects \cup {NoObj} : connect(n, o)
    \/ \E c \in 1..Len(conns) : connection_disconnect(c)
    \/ \E n \in Notifiers : notifier_dtor(n)
    \/ \E o \in Objects : trackable_dtor(o)
    \/ \E src \in Notifiers, dst \in Notifiers : notifier_copy(src, dst)
    \/ \E src \in Notifiers, dst \in Notifiers : notifier_move(src, dst)
    \/ \E src \in Objects, dst \in Objects : trackable_copy(src, dst)


\* The library when listeners may throw or disconnect during a broadcast.
NextBroadcast ==
    \/ \E n \in Notifiers, o \in Objects \cup Plain \cup {NoObj} : connect(n, o)
    \/ \E c \in 1..Len(conns) : connection_disconnect(c)
    \/ \E n \in Notifiers, o \in Objects \cup Plain : disconnect(n, o)
    \/ \E n \in Notifiers : disconnect_all(n)
    \/ \E o \in Objects : trackable_dtor(o)
    \/ \E o \in Plain : object_dtor(o)
    \/ \E n \in Notifiers, arg \in Args, k \in 1..MaxConnects : notify_throw(n, arg, k)
    \/ \E n \in Notifiers, arg \in Args, k \in 1..MaxConnects, c \in 1..Len(conns) :
          notify_reentrant(n, arg, k, c)

\* A program with one notifier, one trackable object and one plain object.
InitOneNotifier ==
    /\ Init
    /\ n_alive = [n \in Notifiers |-> n = "N1"]
    /\ o_alive = [o \in Objects \cup Plain |-> o \in {"O1", "P"}]

SpecBroadcast == InitOneNotifier /\ [][NextBroadcast]_vars

\* A program with one notifier and two trackable objects; a second notifier
\* can be made from the first.
InitTwoObjects ==
    /\ Init
    /\ n_alive = [n \in Notifiers |-> n = "N1"]
    /\ o_alive = [o \in Objects \cup Plain |-> o \in Objects]

SpecCopy == InitTwoObjects /\ [][NextCopy]_vars

SpecMove == InitOneNotifier /\ [][NextMove]_vars

====
